---- MODULE Spec2Model ----
(***************************************************************************)
(* The session-scoped conversation store of llm-chat (three store classes  *)
(* over one Redis instance) and the chat controllers that write to it.     *)
(*                                                                         *)
(*   "utils"     src/utils/redis_history.py    RedisChatHistory            *)
(*   "langchain" src/clients/redis_history.py  RedisLangChainHistory       *)
(*   "clients"   src/clients/redis.py          RedisChatHistory            *)
(*                                                                         *)
(* Spec: two callers run store operations that interleave at the           *)
(* granularity of single Redis commands, while the clock advances and the  *)
(* Redis server becomes unreachable and reachable again.                   *)
(***************************************************************************)
EXTENDS Integers, Sequences, FiniteSets, TLC

\* ------------------------------------------------------------- bounds
MaxNow == 2
\* clock ticks per second of the '%Y%m%d_%H%M%S' session id
TicksPerSec == 2
\* store operations started in one behaviour
MaxOps == 3
\* times the Redis server becomes unreachable in one behaviour
MaxDrops == 1

Variants == {"utils", "langchain", "clients"}
Clients == {"c1", "c2"}
Roles == {"user", "assistant"}
\* a text is the tuple of its characters
Contents == {<<>>, <<"a">>}
\* what a caller hands to add_message: a role (or message class) and a text
Msgs == [role : Roles, content : Contents]
\* the message of the calls made with the falsy session id
FalsyIdMsgs == {[role |-> "user", content |-> <<"a">>]}

None == -1
\* the session id "" (falsy); ids f"chat:{second}" are the naturals
EmptyId == -1
MaxSec == MaxNow \div TicksPerSec
ChatIds == 0 .. MaxSec
Ids == ChatIds \cup {EmptyId}

VARIABLES
    variant,   \* the store class every caller uses
    now,       \* datetime.now(), in ticks
    up,        \* the Redis server answers commands
    lists,     \* Redis lists: key session_id -> stored JSON records
    meta,      \* Redis hashes: key f"{session_id}:meta" -> fields
    pc,        \* each caller's position in its store operation
    call,      \* each caller's operation and arguments
    loc,       \* each caller's local variables
    last,      \* the operation that has just returned or raised, if any
    nops,      \* operations started so far
    drops,     \* times the server became unreachable so far
    issued,    \* ids returned by create_session, in order (history)
    log,       \* per key, the messages rpush-ed by add_message since the
               \* key was last deleted (history)
    clean,     \* per key, no add_message on it has met a store failure
    removed,   \* per key, a DEL has removed the list or the hash (history)
    ctl,       \* the chat controller that runs, if one does
    ss,        \* st.session_state of the controller's browser session
    turn,      \* the controller's chat turn: its position and local variables
    ctx,       \* LangChainClient._message_histories
    conn,      \* _connect_with_retry: its position, loop variable and history
    tabs       \* browser sessions running the script side by side

\* the state of the controller, of the LLM client, of the connection loop
\* and of the browser sessions
controller == <<ctl, ss, turn, ctx, conn, tabs>>

vars == <<variant, now, up, lists, meta, pc, call, loc, last, nops, drops,
          issued, log, clean, removed, ctl, ss, turn, ctx, conn, tabs>>

\* -------------------------------------------------------------- codec
\* strftime('%Y%m%d_%H%M%S'): the clock cut to whole seconds
SessionIdAt(t) == t \div TicksPerSec

\* HumanMessage / AIMessage class names
ClassName(role) == IF role = "user" THEN "HumanMessage" ELSE "AIMessage"

\* json.dumps of the dict add_message builds
\* (the "timestamp" entry of the dict is written and never read back by
\* any operation of the store; its value is left out of the stored record)
EncodeRole(m) == [tag |-> "role", kind |-> m.role, content |-> m.content]

EncodeType(m) == [tag |-> "type", kind |-> ClassName(m.role), content |-> m.content]

Encode(v, m) == IF v = "langchain" THEN EncodeType(m) ELSE EncodeRole(m)

\* json.loads of a record written by add_message of the same store class
DecodeRole(r) == [role |-> r.kind, content |-> r.content]

\* the records get_session_messages of RedisLangChainHistory keeps: those
\* whose "type" is HumanMessage or AIMessage
Recognized(r) == r.kind \in {"HumanMessage", "AIMessage"}

DecodeType(r) ==
    [role |-> IF r.kind = "HumanMessage" THEN "user" ELSE "assistant",
     content |-> r.content]

\* the value get_session_messages builds from lrange(session_id, 0, -1)
Decode(v, q) ==
    IF v = "langchain"
    THEN LET kept == SelectSeq(q, Recognized)
         IN  [i \in 1 .. Len(kept) |-> DecodeType(kept[i])]
    ELSE [i \in 1 .. Len(q) |-> DecodeRole(q[i])]

\* ------------------------------------------------------ Redis commands
\* a hash without any field (such a key does not exist)
NoMeta == [created_at |-> None, message_count |-> None, chat_name |-> "<nil>"]

\* a key of the keyspace: the list of a session or its ':meta' hash
ListKey(id) == [id |-> id, suffix |-> ""]
MetaKey(id) == [id |-> id, suffix |-> ":meta"]

\* keys("chat:*"): an empty list and a hash without fields do not exist
KeysChat(l, m) ==
    {ListKey(id) : id \in {i \in ChatIds : l[i] # <<>>}}
    \cup {MetaKey(id) : id \in {i \in ChatIds : m[i] # NoMeta}}

\* delete(session_id): one DEL command that names the list alone
DelListOnlyMeta(m, id) == m

\* delete(session_id, f"{session_id}:meta"): one DEL command, both keys
DelBothLists(l, id) == [l EXCEPT ![id] = <<>>]
DelBothMeta(m, id) ==
    [m EXCEPT ![id] = NoMeta]

\* a DEL that leaves a ':meta' hash in place
DelKeyMetaKept(m, k) == m

\* delete(key): one DEL command, one key
DelKeyLists(l, k) == IF k.suffix = "" THEN [l EXCEPT ![k.id] = <<>>] ELSE l
DelKeyMeta(m, k) ==
    IF k.suffix = ":meta"
    THEN [m EXCEPT ![k.id] = NoMeta]
    ELSE m

\* lpush(key, value): the value goes to the head of the list
LPush(l, k, v) == [l EXCEPT ![k] = <<v>> \o @]

\* rpush(key, value)
RPush(l, k, v) == [l EXCEPT ![k] = Append(@, v)]

HIncrBy(m, k) ==
    [m EXCEPT ![k].message_count = IF @ = None THEN 1 ELSE @ + 1]

HSetCount(m, k, n) == [m EXCEPT ![k].message_count = n]

HSetName(m, k, name) == [m EXCEPT ![k].chat_name = name]

\* hset(..., mapping={created_at, message_count}): other fields are kept
HSetCreated(m, k, t) ==
    [m EXCEPT ![k].created_at = t, ![k].message_count = 0]

HSetCreatedNamed(m, k, t, name) ==
    [m EXCEPT ![k] = [created_at |-> t, message_count |-> 0, chat_name |-> name]]

\* ------------------------------------------------------------ callers
NoCall == [op |-> "none", sid |-> EmptyId, msg |-> [role |-> "user", content |-> <<>>],
           name |-> ""]
NoLoc == [count |-> None, pushed |-> FALSE, countFailed |-> FALSE,
          meta |-> NoMeta, keys |-> {}]
NoLast == [op |-> "none"]

\* every operation of the utils store starts with _ensure_connection: a ping
\* and, when the ping fails, _connect_with_retry
FirstPc(v, cmd) == IF v = "utils" /\ ~up THEN "reconnect" ELSE cmd

\* how an operation ended, as its caller sees it
\* (pushed, countFailed: what happened to the two writes of add_message;
\* pre: the messages the session held when the operation's last command ran)
Outcome(c, how, val, pushed, countFailed) ==
    [op |-> call[c].op, client |-> c, sid |-> call[c].sid, msg |-> call[c].msg,
     name |-> call[c].name, outcome |-> how, val |-> val, pushed |-> pushed, countFailed |-> countFailed,
     pre |-> Len(lists[call[c].sid])]

Returned(c, val) == Outcome(c, "returned", val, loc[c].pushed, loc[c].countFailed)

Raised(c) == Outcome(c, "raised", None, loc[c].pushed, loc[c].countFailed)

\* the operation ends: the caller is idle again and `last` tells how it ended
Finish(c, how) ==
    /\ pc' = [pc EXCEPT ![c] = "idle"]
    /\ call' = [call EXCEPT ![c] = NoCall]
    /\ loc' = [loc EXCEPT ![c] = NoLoc]
    /\ last' = how

Goto(c, p) ==
    /\ pc' = [pc EXCEPT ![c] = p]
    /\ last' = NoLast

\* no connection loop runs
NoConn == [pc |-> "none", max_retries |-> 0, attempt |-> 0, pings |-> 0, failed |-> 0,
           sleeps |-> 0, result |-> "none", error |-> "none"]

\* no session selected: st.session_state.current_session = None
NoSession == -2

\* the browser sessions (tabs) of SpecTabs
Tabs == {"t1", "t2"}
NoTabs == [t \in Tabs |-> [session |-> NoSession, phase |-> "idle", n |-> 0]]

\* st.session_state before the first script run
NoState == [started |-> FALSE, current_session |-> NoSession, messages |-> <<>>,
            confirm_clear |-> FALSE, confirm_delete |-> NoSession]

\* the message placeholder of a turn before anything is written to it
NoShown == [text |-> <<>>, cursor |-> FALSE]

\* no failure has been handed to the caller of the streaming call
NoFailure == [kind |-> "none", text |-> <<>>]

\* no chat turn has been handled yet
\* (received, emitted, ended, userAppended, appended, named, naming, cause:
\* history)
NoTurn == [phase |-> "idle", n |-> 0, prompt |-> <<>>, full_response |-> <<>>,
           shown |-> NoShown, failure |-> NoFailure,
           received |-> <<>>, emitted |-> 0, ended |-> "none", error |-> FALSE,
           userAppended |-> FALSE, appended |-> FALSE, named |-> FALSE,
           naming |-> "none", cause |-> "none"]

Init ==
    /\ variant \in Variants
    /\ ctl = "none"
    /\ ss = NoState
    /\ turn = NoTurn
    /\ ctx = [k \in Ids |-> <<>>]
    /\ tabs = NoTabs
    /\ conn = NoConn
    /\ now = 0
    /\ up = TRUE
    /\ lists = [k \in Ids |-> <<>>]
    /\ meta = [k \in Ids |-> NoMeta]
    /\ pc = [c \in Clients |-> "idle"]
    /\ call = [c \in Clients |-> NoCall]
    /\ loc = [c \in Clients |-> NoLoc]
    /\ last = NoLast
    /\ nops = 0
    /\ drops = 0
    /\ issued = <<>>
    /\ log = [k \in Ids |-> <<>>]
    /\ clean = [k \in Ids |-> TRUE]
    /\ removed = [k \in Ids |-> FALSE]

\* -------------------------------------------------------- environment
\* datetime.now() is read by create_session alone (session id, created_at):
\* the clock advances while a caller is about to read it
Tick ==
    /\ now < MaxNow
    /\ \E c \in Clients : pc[c] = "hset"
    /\ now' = now + 1
    /\ last' = NoLast
    /\ UNCHANGED <<controller, variant, up, lists, meta, pc, call, loc, nops, drops, issued, log, clean, removed>>

\* the server becomes unreachable while some operation is in flight
Drop ==
    /\ up
    /\ drops < MaxDrops
    /\ drops' = drops + 1
    /\ up' = FALSE
    /\ last' = NoLast
    /\ UNCHANGED <<controller, variant, now, lists, meta, pc, call, loc, nops, issued, log, clean, removed>>

Restore ==
    /\ ~up
    /\ up' = TRUE
    /\ last' = NoLast
    /\ UNCHANGED <<controller, variant, drops, now, lists, meta, pc, call, loc, nops, issued, log, clean, removed>>

\* ------------------------------------------------ _ensure_connection
\* the store object stays unusable once its ping has failed
ReconnectGivesUp(c, cmd) ==
    /\ pc[c] = "reconnect"
    /\ Finish(c, Raised(c))
    /\ UNCHANGED <<controller, variant, drops, now, up, lists, meta, nops, issued, log,
                   clean, removed>>

\* The ping of _ensure_connection has failed and _connect_with_retry runs:
\* it returns a client as soon as one attempt's ping is answered, and
\* re-raises when the server has stayed unreachable for every attempt.
Reconnect(c, cmd) ==
    /\ pc[c] = "reconnect"
    /\ IF up
       THEN /\ Goto(c, cmd)
            /\ UNCHANGED <<call, loc, clean>>
       ELSE /\ Finish(c, Raised(c))
            /\ clean' = IF call[c].op = "add_message"
                        THEN [clean EXCEPT ![call[c].sid] = FALSE]
                        ELSE clean
    /\ UNCHANGED <<controller, variant, drops, now, up, lists, meta, nops, issued, log, removed>>

\* the first Redis command of each operation
CmdPc(op) ==
    CASE op = "create_session" -> "hset"
      [] op = "add_message" -> "rpush"
      [] op = "get_session_messages" -> "lrange"
      [] op = "get_session_info" -> "hgetall"
      [] op = "list_sessions" -> "keys"
      [] op = "delete_session" -> "del"
      [] op = "clear_all_sessions" -> "ckeys"
      [] OTHER -> "idle"

\* Callers keep nothing between two operations, so they are interchangeable:
\* the second one starts an operation only while the first one is busy.
MayBegin(c) ==
    /\ pc[c] = "idle"
    /\ nops < MaxOps
    /\ c = "c2" => pc["c1"] # "idle"

\* a caller starts an operation
Begin(c, op, sid, m) ==
    /\ MayBegin(c)
    /\ nops' = nops + 1
    /\ call' = [call EXCEPT ![c] = [op |-> op, sid |-> sid, msg |-> m, name |-> ""]]
    /\ pc' = [pc EXCEPT ![c] = FirstPc(variant, CmdPc(op))]
    /\ last' = NoLast

\* ids a caller can hold: those create_session has returned
Known == {issued[i] : i \in 1 .. Len(issued)}

\* ---------------------------------------------------- create_session
CreateSession(c) ==
    /\ Begin(c, "create_session", EmptyId, NoCall.msg)
    /\ UNCHANGED <<controller, variant, drops, now, up, lists, meta, loc, issued, log, clean, removed>>

\* hset(f"{session_id}:meta", mapping=...) and return session_id
CreateHSet(c) ==
    /\ pc[c] = "hset"
    /\ LET id == SessionIdAt(now) IN
       IF up
       THEN /\ meta' = IF variant = "langchain"
                       THEN HSetCreatedNamed(meta, id, now, "default")
                       ELSE HSetCreated(meta, id, now)
            /\ issued' = Append(issued, id)
            /\ Finish(c, [Returned(c, id) EXCEPT !.sid = id])
       ELSE /\ Finish(c, Raised(c))
            /\ UNCHANGED <<meta, issued>>
    /\ UNCHANGED <<controller, variant, drops, now, up, lists, nops, log, clean, removed>>

\* ------------------------------------------------------- add_message
\* RedisLangChainHistory returns at once on a falsy session_id
AddMessage(c, sid, m) ==
    /\ MayBegin(c)
    /\ nops' = nops + 1
    /\ IF variant = "langchain" /\ sid = EmptyId
       THEN /\ last' = [op |-> "add_message", client |-> c, sid |-> sid, msg |-> m,
                        name |-> "", outcome |-> "returned", val |-> None, pushed |-> FALSE,
                        countFailed |-> FALSE, pre |-> Len(lists[sid])]
            /\ UNCHANGED <<pc, call>>
       ELSE /\ call' = [call EXCEPT ![c] = [op |-> "add_message", sid |-> sid, msg |-> m,
                                             name |-> ""]]
            /\ pc' = [pc EXCEPT ![c] = FirstPc(variant, "rpush")]
            /\ last' = NoLast
    /\ UNCHANGED <<controller, variant, drops, now, up, lists, meta, loc, issued, log, clean, removed>>

\* what each store class does with an exception raised inside add_message
AddFails(c, pushed, countFailed) ==
    /\ IF variant = "utils"
       THEN Finish(c, Outcome(c, "returned", None, pushed, countFailed))
       ELSE Finish(c, Outcome(c, "raised", None, pushed, countFailed))
    /\ clean' = [clean EXCEPT ![call[c].sid] = FALSE]

\* rpush(session_id, json.dumps(message))
AddRPush(c) ==
    /\ pc[c] = "rpush"
    /\ LET sid == call[c].sid IN
       IF up
       THEN /\ lists' = RPush(lists, sid, Encode(variant, call[c].msg))
            /\ log' = [log EXCEPT ![sid] = Append(@, call[c].msg)]
            /\ loc' = [loc EXCEPT ![c].pushed = TRUE]
            /\ Goto(c, IF variant = "langchain" THEN "hget" ELSE "hincrby")
            /\ UNCHANGED <<call, clean>>
       ELSE /\ AddFails(c, FALSE, FALSE)
            /\ UNCHANGED <<lists, log>>
    /\ UNCHANGED <<controller, variant, drops, now, up, meta, nops, issued, removed>>

\* hincrby(f"{session_id}:meta", "message_count", 1)
AddHIncrBy(c) ==
    /\ pc[c] = "hincrby"
    /\ IF up
       THEN /\ meta' = HIncrBy(meta, call[c].sid)
            /\ Finish(c, Returned(c, None))
            /\ UNCHANGED clean
       ELSE /\ AddFails(c, loc[c].pushed, TRUE)
            /\ UNCHANGED meta
    /\ UNCHANGED <<controller, variant, drops, now, up, lists, nops, issued, log, removed>>

\* current_count = hget(count_key, "message_count")
AddHGet(c) ==
    /\ pc[c] = "hget"
    /\ IF up
       THEN /\ loc' = [loc EXCEPT ![c].count = meta[call[c].sid].message_count]
            /\ Goto(c, "hsetcount")
            /\ UNCHANGED <<call, clean>>
       ELSE AddFails(c, loc[c].pushed, TRUE)
    /\ UNCHANGED <<controller, variant, drops, now, up, lists, meta, nops, issued, log, removed>>

\* hset(count_key, "message_count", str(int(current_count or 0) + 1))
AddHSetCount(c) ==
    /\ pc[c] = "hsetcount"
    /\ IF up
       THEN /\ meta' = HSetCount(meta, call[c].sid,
                         (IF loc[c].count = None THEN 0 ELSE loc[c].count) + 1)
            /\ Finish(c, Returned(c, None))
            /\ UNCHANGED clean
       ELSE /\ AddFails(c, loc[c].pushed, TRUE)
            /\ UNCHANGED meta
    /\ UNCHANGED <<controller, variant, drops, now, up, lists, nops, issued, log, removed>>

\* ---------------------------------------------- get_session_messages
GetSessionMessages(c, sid) ==
    /\ Begin(c, "get_session_messages", sid, NoCall.msg)
    /\ UNCHANGED <<controller, variant, drops, now, up, lists, meta, loc, issued, log, clean, removed>>

\* lrange(session_id, 0, -1), decoded; an exception gives [] (utils,
\* langchain) or reaches the caller (clients)
GetLRange(c) ==
    /\ pc[c] = "lrange"
    /\ IF up
       THEN Finish(c, Returned(c, Decode(variant, lists[call[c].sid])))
       ELSE IF variant = "clients"
            THEN Finish(c, Raised(c))
            ELSE Finish(c, Returned(c, <<>>))
    /\ UNCHANGED <<controller, variant, drops, now, up, lists, meta, nops, issued, log, clean, removed>>

\* -------------------------------------------------- get_session_info
\* "Unknown", the created_at of a session without one; it sorts after
\* every ISO timestamp
Unknown == 1000

\* the count as read from the hash's message_count field
InfoCountStored(h, n) == IF h.message_count = None THEN 0 ELSE h.message_count

\* the dict get_session_info returns, from hgetall's result h and llen's n:
\* its message_count is llen's answer
InfoCount(h, n) == n

InfoRecord(v, h, n, t) ==
    IF v = "langchain"
    THEN [created_at |-> IF h.created_at = None THEN t ELSE h.created_at,
          message_count |-> InfoCount(h, n), count_is_str |-> TRUE,
          chat_name |-> IF h.chat_name = "<nil>" THEN "Chat <id>" ELSE h.chat_name]
    ELSE [created_at |-> IF h.created_at = None THEN Unknown ELSE h.created_at,
          message_count |-> InfoCount(h, n), count_is_str |-> FALSE,
          chat_name |-> "<nil>"]

\* what get_session_info returns when a command raised: {} (utils), the
\* default record (langchain)
InfoOnError(v, t) ==
    IF v = "langchain"
    THEN [created_at |-> t, message_count |-> 0, count_is_str |-> TRUE,
          chat_name |-> "New Chat"]
    ELSE [created_at |-> None, message_count |-> None, count_is_str |-> FALSE,
          chat_name |-> "<nil>"]

GetSessionInfo(c, sid) ==
    /\ Begin(c, "get_session_info", sid, NoCall.msg)
    /\ UNCHANGED <<controller, variant, drops, now, up, lists, meta, loc, issued, log, clean, removed>>

InfoFails(c) ==
    IF variant = "clients"
    THEN Finish(c, Raised(c))
    ELSE Finish(c, Returned(c, InfoOnError(variant, now)))

\* meta = hgetall(f"{session_id}:meta")
InfoHGetAll(c) ==
    /\ pc[c] = "hgetall"
    /\ IF up
       THEN /\ loc' = [loc EXCEPT ![c].meta = meta[call[c].sid]]
            /\ Goto(c, "llen")
            /\ UNCHANGED call
       ELSE InfoFails(c)
    /\ UNCHANGED <<controller, variant, drops, now, up, lists, meta, nops, issued, log, clean, removed>>

\* message_count = llen(session_id)
InfoLLen(c) ==
    /\ pc[c] = "llen"
    /\ IF up
       THEN Finish(c, Returned(c,
                InfoRecord(variant, loc[c].meta, Len(lists[call[c].sid]), now)))
       ELSE InfoFails(c)
    /\ UNCHANGED <<controller, variant, drops, now, up, lists, meta, nops, issued, log, clean, removed>>

\* ------------------------------------------------------ list_sessions
\* the keys list_sessions keeps: those without ":meta" in them
ListedKeys(ks) == {k \in ks : k.suffix # ":meta"}

\* one entry of the listing, from get_session_info(key)
Entry(id, info) ==
    [id |-> id, created_at |-> info.created_at,
     message_count |-> IF info.message_count = None THEN 0 ELSE info.message_count,
     chat_name |-> info.chat_name]

\* every order in which keys() may return a set of keys
Orders(S) ==
    {q \in [1 .. Cardinality(S) -> S] : \A i, j \in 1 .. Cardinality(S) : q[i] = q[j] => i = j}

RECURSIVE InsertDesc(_, _)
\* e put behind every element whose created_at is not smaller (stable)
InsertDesc(e, q) ==
    IF q = <<>> \/ q[1].created_at < e.created_at
    THEN <<e>> \o q
    ELSE <<q[1]>> \o InsertDesc(e, Tail(q))

RECURSIVE SortDesc(_)
\* sorted(sessions, key=created_at, reverse=True)
SortDesc(q) ==
    IF q = <<>> THEN <<>>
    ELSE InsertDesc(q[Len(q)], SortDesc(SubSeq(q, 1, Len(q) - 1)))

\* sorted() compares the keys: None against anything raises TypeError
SortRaises(q) == Len(q) >= 2 /\ \E i \in 1 .. Len(q) : q[i].created_at = None

ListSessions(c) ==
    /\ Begin(c, "list_sessions", EmptyId, NoCall.msg)
    /\ UNCHANGED <<controller, variant, drops, now, up, lists, meta, loc, issued, log, clean, removed>>

ListFails(c) ==
    IF variant = "clients"
    THEN Finish(c, Raised(c))
    ELSE Finish(c, Returned(c, <<>>))

\* keys("chat:*")
ListKeys(c) ==
    /\ pc[c] = "keys"
    /\ IF up
       THEN /\ loc' = [loc EXCEPT ![c].keys = ListedKeys(KeysChat(lists, meta))]
            /\ Goto(c, "infos")
            /\ UNCHANGED call
       ELSE ListFails(c)
    /\ UNCHANGED <<controller, variant, drops, now, up, lists, meta, nops, issued, log, clean, removed>>

\* get_session_info(key) for every key kept, then sorted(); the keys come in
\* any order. With the server unreachable: get_session_info raises in
\* _ensure_connection or returns {} (utils), returns its default (langchain)
\* or raises (clients).
ListInfos(c) ==
    /\ pc[c] = "infos"
    /\ \E order \in Orders(loc[c].keys) :
         LET infos == [i \in 1 .. Len(order) |->
                         IF up
                         THEN InfoRecord(variant, meta[order[i].id],
                                         Len(lists[order[i].id]), now)
                         ELSE InfoOnError(variant, now)]
             entries == [i \in 1 .. Len(order) |-> Entry(order[i].id, infos[i])]
         IN  IF ~up /\ variant # "langchain" /\ order # <<>>
             THEN \/ ListFails(c)
                  \/ /\ variant = "utils"
                     /\ Finish(c, Returned(c,
                           IF SortRaises(entries) THEN <<>> ELSE SortDesc(entries)))
             ELSE Finish(c, Returned(c, SortDesc(entries)))
    /\ UNCHANGED <<controller, variant, drops, now, up, lists, meta, nops, issued, log, clean, removed>>

\* ----------------------------------------------------- delete_session
DeleteSession(c, sid) ==
    /\ Begin(c, "delete_session", sid, NoCall.msg)
    /\ UNCHANGED <<controller, variant, drops, now, up, lists, meta, loc, issued, log, clean, removed>>

\* delete(session_id, f"{session_id}:meta"); True, or False on an exception
DeleteDel(c) ==
    /\ pc[c] = "del"
    /\ LET sid == call[c].sid IN
       IF up
       THEN /\ lists' = DelBothLists(lists, sid)
            /\ meta' = DelBothMeta(meta, sid)
            /\ log' = [log EXCEPT ![sid] = <<>>]
            /\ removed' = [removed EXCEPT ![sid] = TRUE]
            /\ Finish(c, Returned(c, TRUE))
       ELSE /\ Finish(c, Returned(c, FALSE))
            /\ UNCHANGED <<lists, meta, log, removed>>
    /\ UNCHANGED <<controller, variant, drops, now, up, nops, issued, clean>>

\* ------------------------------------------------- clear_all_sessions
ClearAllSessions(c) ==
    /\ Begin(c, "clear_all_sessions", EmptyId, NoCall.msg)
    /\ UNCHANGED <<controller, variant, drops, now, up, lists, meta, loc, issued, log, clean, removed>>

\* keys("chat:*"): the keys the loop will delete; with none, True
ClearKeys(c) ==
    /\ pc[c] = "ckeys"
    /\ IF up
       THEN IF KeysChat(lists, meta) = {}
            THEN Finish(c, Returned(c, TRUE))
            ELSE /\ loc' = [loc EXCEPT ![c].keys = KeysChat(lists, meta)]
                 /\ Goto(c, "cdel")
                 /\ UNCHANGED call
       ELSE Finish(c, Returned(c, FALSE))
    /\ UNCHANGED <<controller, variant, drops, now, up, lists, meta, nops, issued, log, clean, removed>>

\* delete(key) for the next key of the loop (keys() orders them in any
\* way); True after the last one, False on an exception
ClearDel(c) ==
    /\ pc[c] = "cdel"
    /\ IF up
       THEN \E k \in loc[c].keys :
              /\ lists' = DelKeyLists(lists, k)
              /\ meta' = DelKeyMeta(meta, k)
              /\ log' = IF k.suffix = "" THEN [log EXCEPT ![k.id] = <<>>] ELSE log
              /\ removed' = [removed EXCEPT ![k.id] = TRUE]
              /\ IF loc[c].keys = {k}
                 THEN Finish(c, Returned(c, TRUE))
                 ELSE /\ loc' = [loc EXCEPT ![c].keys = @ \ {k}]
                      /\ Goto(c, "cdel")
                      /\ UNCHANGED call
       ELSE /\ Finish(c, Returned(c, FALSE))
            /\ UNCHANGED <<lists, meta, log, removed>>
    /\ UNCHANGED <<controller, variant, drops, now, up, nops, issued, clean>>

\* --------------------------------------------------- update_chat_name
\* the names a caller hands to update_chat_name
Names == {"", "n"}

\* the guard tests the session id alone
RenameRejectsNoId(sid, name) == sid = EmptyId

\* not session_id or not chat_name
RenameRejects(sid, name) == sid = EmptyId \/ name = ""

\* RedisLangChainHistory.update_chat_name: False at once on an empty
\* session_id or an empty name (the other store classes have no rename)
UpdateChatName(c, sid, name) ==
    /\ variant = "langchain"
    /\ MayBegin(c)
    /\ nops' = nops + 1
    /\ IF RenameRejects(sid, name)
       THEN /\ last' = [op |-> "update_chat_name", client |-> c, sid |-> sid,
                        msg |-> NoCall.msg, name |-> name, outcome |-> "returned",
                        val |-> FALSE, pushed |-> FALSE, countFailed |-> FALSE,
                        pre |-> Len(lists[sid])]
            /\ UNCHANGED <<pc, call>>
       ELSE /\ call' = [call EXCEPT ![c] = [op |-> "update_chat_name", sid |-> sid,
                                             msg |-> NoCall.msg, name |-> name]]
            /\ pc' = [pc EXCEPT ![c] = "hsetname"]
            /\ last' = NoLast
    /\ UNCHANGED <<controller, variant, drops, now, up, lists, meta, loc, issued, log, clean, removed>>

\* hset(f"{session_id}:meta", "chat_name", chat_name); True, or False on an
\* exception
RenameHSet(c) ==
    /\ pc[c] = "hsetname"
    /\ IF up
       THEN /\ meta' = HSetName(meta, call[c].sid, call[c].name)
            /\ Finish(c, Returned(c, TRUE))
       ELSE /\ Finish(c, Returned(c, FALSE))
            /\ UNCHANGED meta
    /\ UNCHANGED <<controller, variant, drops, now, up, lists, nops, issued, log, clean, removed>>

Next ==
    \/ Tick
    \/ Drop
    \/ Restore
    \/ \E c \in Clients :
        \/ Reconnect(c, CmdPc(call[c].op))
        \/ CreateSession(c)
        \/ CreateHSet(c)
        \/ \E sid \in Known, m \in Msgs : AddMessage(c, sid, m)
        \/ \E m \in FalsyIdMsgs : AddMessage(c, EmptyId, m)
        \/ AddRPush(c)
        \/ AddHIncrBy(c)
        \/ AddHGet(c)
        \/ AddHSetCount(c)
        \/ \E sid \in Known : GetSessionMessages(c, sid)
        \/ GetLRange(c)
        \/ \E sid \in Known : GetSessionInfo(c, sid)
        \/ InfoHGetAll(c)
        \/ InfoLLen(c)
        \/ ListSessions(c)
        \/ ListKeys(c)
        \/ ListInfos(c)
        \/ \E sid \in Known : DeleteSession(c, sid)
        \/ DeleteDel(c)
        \/ ClearAllSessions(c)
        \/ ClearKeys(c)
        \/ ClearDel(c)

Spec == Init /\ [][Next]_vars

\* SpecRename: RedisLangChainHistory alone, with the rename that only this
\* class has (StreamlitApp names a session after its first exchange)
InitRename ==
    /\ Init
    /\ variant = "langchain"

NextRename ==
    \/ Tick
    \/ Drop
    \/ Restore
    \/ \E c \in Clients :
        \/ CreateSession(c)
        \/ CreateHSet(c)
        \/ \E sid \in Known, m \in Msgs : AddMessage(c, sid, m)
        \/ \E m \in FalsyIdMsgs : AddMessage(c, EmptyId, m)
        \/ AddRPush(c)
        \/ AddHGet(c)
        \/ AddHSetCount(c)
        \/ \E sid \in Known : GetSessionMessages(c, sid)
        \/ GetLRange(c)
        \/ \E sid \in Known : GetSessionInfo(c, sid)
        \/ InfoHGetAll(c)
        \/ InfoLLen(c)
        \/ ListSessions(c)
        \/ ListKeys(c)
        \/ ListInfos(c)
        \/ \E sid \in Known : DeleteSession(c, sid)
        \/ DeleteDel(c)
        \/ ClearAllSessions(c)
        \/ ClearKeys(c)
        \/ ClearDel(c)
        \/ \E sid \in Known \cup {EmptyId}, name \in Names : UpdateChatName(c, sid, name)
        \/ RenameHSet(c)

SpecRename == InitRename /\ [][NextRename]_vars

\* ------------------------------------------------ a reply that is late
\* SpecTimeout: add_message alone, on one session, against a server that can
\* be slow. Every store class builds its client with socket_timeout 5 and
\* retry_on_timeout True: when the reply to a command does not come within
\* the timeout, redis-py closes the connection and sends the command once
\* more, whether or not the server has executed the first one; the caller
\* sees an error only when the second sending fails too.
RetryOnTimeout(v) == TRUE

InitTimeout ==
    /\ variant \in Variants
    /\ ctl = "none"
    /\ ss = NoState
    /\ turn = NoTurn
    /\ ctx = [k \in Ids |-> <<>>]
    /\ tabs = NoTabs
    /\ conn = NoConn
    /\ now = 0
    /\ up = TRUE
    /\ lists = [k \in Ids |-> <<>>]
    /\ meta = IF variant = "langchain"
              THEN HSetCreatedNamed([k \in Ids |-> NoMeta], 0, 0, "default")
              ELSE HSetCreated([k \in Ids |-> NoMeta], 0, 0)
    /\ pc = [c \in Clients |-> "idle"]
    /\ call = [c \in Clients |-> NoCall]
    /\ loc = [c \in Clients |-> NoLoc]
    /\ last = NoLast
    /\ nops = 0
    /\ drops = 0
    /\ issued = <<0>>
    /\ log = [k \in Ids |-> <<>>]
    /\ clean = [k \in Ids |-> TRUE]
    /\ removed = [k \in Ids |-> FALSE]

\* rpush(session_id, json.dumps(message)) is sent and no reply comes within
\* socket_timeout: the server has executed it (executed) or has not
AddRPushTimeout(c, executed) ==
    /\ pc[c] = "rpush"
    /\ up
    /\ LET sid == call[c].sid IN
       IF executed
       THEN /\ lists' = RPush(lists, sid, Encode(variant, call[c].msg))
            /\ log' = [log EXCEPT ![sid] = Append(@, call[c].msg)]
            /\ loc' = [loc EXCEPT ![c].pushed = TRUE]
       ELSE UNCHANGED <<lists, log, loc>>
    /\ IF RetryOnTimeout(variant)
       THEN /\ Goto(c, "resend")
            /\ UNCHANGED <<call, clean>>
       ELSE AddFails(c, executed, FALSE)
    /\ UNCHANGED <<controller, variant, drops, now, up, meta, nops, issued, removed>>

\* redis-py sends the rpush a second time, on a new connection
AddRPushResend(c) ==
    /\ pc[c] = "resend"
    /\ LET sid == call[c].sid IN
       IF up
       THEN /\ lists' = RPush(lists, sid, Encode(variant, call[c].msg))
            /\ log' = [log EXCEPT ![sid] = Append(@, call[c].msg)]
            /\ loc' = [loc EXCEPT ![c].pushed = TRUE]
            /\ Goto(c, IF variant = "langchain" THEN "hget" ELSE "hincrby")
            /\ UNCHANGED <<call, clean>>
       ELSE /\ AddFails(c, loc[c].pushed, FALSE)
            /\ UNCHANGED <<lists, log>>
    /\ UNCHANGED <<controller, variant, drops, now, up, meta, nops, issued, removed>>

NextTimeout ==
    \/ Drop
    \/ Restore
    \/ \E c \in Clients :
        \/ Reconnect(c, CmdPc(call[c].op))
        \/ \E sid \in Known, m \in [role : Roles, content : {<<"a">>}] : AddMessage(c, sid, m)
        \/ AddRPush(c)
        \/ \E executed \in BOOLEAN : AddRPushTimeout(c, executed)
        \/ AddRPushResend(c)
        \/ AddHIncrBy(c)
        \/ AddHGet(c)
        \/ AddHSetCount(c)

SpecTimeout == InitTimeout /\ [][NextTimeout]_vars

\* ------------------------------------------- reads over a found keyspace
\* SpecRead: the store is opened on a keyspace that earlier runs and other
\* Redis clients left behind, and is only read. A session's ':meta' key is
\* absent, a hash with created_at, a hash that add_message alone wrote
\* (message_count without created_at), or a key that is not a hash, for
\* which hgetall answers a WRONGTYPE error. A list holds records written by
\* add_message and possibly one corrupt record between two of them.
WrongType == [created_at |-> None, message_count |-> None, chat_name |-> "<wrongtype>"]

MetaKinds ==
    {[kind |-> k, at |-> None] : k \in {"absent", "countonly", "wrongtype"}}
    \cup {[kind |-> "created", at |-> t] : t \in 0 .. MaxNow}

FoundMeta(v, mk, n) ==
    CASE mk.kind = "absent" -> NoMeta
      [] mk.kind = "wrongtype" -> WrongType
      [] mk.kind = "countonly" ->
            [created_at |-> None, message_count |-> n, chat_name |-> "<nil>"]
      [] OTHER ->
            [created_at |-> mk.at, message_count |-> n,
             chat_name |-> IF v = "langchain" THEN "New Chat" ELSE "<nil>"]

\* a stored string that is not JSON
NotJson == [tag |-> "notjson", kind |-> "", content |-> <<>>]

\* a JSON object without its role / type entry, or without "content"
NoTag(v) == [tag |-> "notag", kind |-> "", content |-> <<"a">>]
NoContent(v) == [Encode(v, [role |-> "user", content |-> <<>>]) EXCEPT !.tag = "nocontent"]

\* a JSON object with a role / type no add_message writes
OddRole(v) == [Encode(v, [role |-> "user", content |-> <<"a">>]) EXCEPT
                 !.kind = IF v = "langchain" THEN "SystemMessage" ELSE "system"]

Corrupt(v) == {NotJson, NoTag(v), NoContent(v), OddRole(v)}

FoundLists(v) ==
    {<<>>, <<Encode(v, [role |-> "user", content |-> <<"a">>])>>}
    \cup {<<Encode(v, [role |-> "user", content |-> <<"a">>]), x,
             Encode(v, [role |-> "assistant", content |-> <<"a">>])>> : x \in Corrupt(v)}

\* the dict json.loads gives for a record that is JSON (utils, clients)
LoadsRole(r) ==
    IF r.tag = "role" THEN DecodeRole(r) ELSE [role |-> "<partial>", content |-> r.content]

\* RedisLangChainHistory's loop body raises KeyError on msg_dict["type"]
\* or, for a recognized type, on msg_dict["content"]
KeyErrorIn(r) == r.tag = "notag" \/ (r.tag = "nocontent" /\ Recognized(r))

\* the records RedisLangChainHistory's loop appends: JSON, of a
\* recognized type
KeptType(r) == r.tag # "notjson" /\ Recognized(r)

\* get_session_messages(id) run to its end over the list q.
\* utils, clients: [json.loads(msg) for msg in messages]; JSONDecodeError
\* gives [] (utils) or reaches the caller (clients).
\* langchain: JSONDecodeError skips the record, any other exception in the
\* loop reaches the outer handler, which answers [].
MessagesWhole(v, q) ==
    IF v = "langchain"
    THEN IF \E i \in 1 .. Len(q) : KeyErrorIn(q[i])
         THEN [outcome |-> "returned", val |-> <<>>]
         ELSE LET kept == SelectSeq(q, KeptType)
              IN  [outcome |-> "returned",
                   val |-> [i \in 1 .. Len(kept) |-> DecodeType(kept[i])]]
    ELSE IF \E i \in 1 .. Len(q) : q[i] = NotJson
         THEN [outcome |-> IF v = "clients" THEN "raised" ELSE "returned", val |-> <<>>]
         ELSE [outcome |-> "returned", val |-> [i \in 1 .. Len(q) |-> LoadsRole(q[i])]]

InitRead ==
    /\ variant \in Variants
    /\ ctl = "none"
    /\ ss = NoState
    /\ turn = NoTurn
    /\ ctx = [k \in Ids |-> <<>>]
    /\ tabs = NoTabs
    /\ conn = NoConn
    /\ now = MaxNow
    /\ up = TRUE
    /\ \E ls \in [ChatIds -> FoundLists(variant)], mk \in [ChatIds -> MetaKinds] :
         /\ \A k \in ChatIds : mk[k].kind = "countonly" => ls[k] # <<>>
         /\ lists = [k \in Ids |-> IF k \in ChatIds THEN ls[k] ELSE <<>>]
         /\ meta = [k \in Ids |-> IF k \in ChatIds
                                   THEN FoundMeta(variant, mk[k], Len(ls[k]))
                                   ELSE NoMeta]
    /\ pc = [c \in Clients |-> "idle"]
    /\ call = [c \in Clients |-> NoCall]
    /\ loc = [c \in Clients |-> NoLoc]
    /\ last = NoLast
    /\ nops = 0
    /\ drops = 0
    /\ issued = <<>>
    /\ log = [k \in Ids |-> <<>>]
    /\ clean = [k \in Ids |-> TRUE]
    /\ removed = [k \in Ids |-> FALSE]

ReadResult(op, sid, r) ==
    [op |-> op, client |-> "c1", sid |-> sid, msg |-> NoCall.msg, name |-> "",
     outcome |-> r.outcome, val |-> r.val, pushed |-> FALSE, countFailed |-> FALSE,
     pre |-> Len(lists[sid])]

\* get_session_info(id) run to its end: hgetall raises on a key of the
\* wrong type, which the method passes on (clients) or answers with {}
\* (utils) or with its default record (langchain)
InfoWhole(v, l, m, id, t) ==
    IF m[id] = WrongType
    THEN IF v = "clients"
         THEN [outcome |-> "raised", val |-> InfoOnError(v, t)]
         ELSE [outcome |-> "returned", val |-> InfoOnError(v, t)]
    ELSE [outcome |-> "returned", val |-> InfoRecord(v, m[id], Len(l[id]), t)]

\* list_sessions() run to its end over the keys in the given order: an
\* exception of get_session_info or of sorted() leaves the loop; the method
\* passes it on (clients) or answers [] (utils, langchain)
ListWhole(v, l, m, order, t) ==
    LET infos == [i \in 1 .. Len(order) |-> InfoWhole(v, l, m, order[i].id, t)]
        entries == [i \in 1 .. Len(order) |-> Entry(order[i].id, infos[i].val)]
        raises == \/ \E i \in 1 .. Len(order) : infos[i].outcome = "raised"
                  \/ v # "langchain" /\ SortRaises(entries)
    IN  IF raises
        THEN [outcome |-> IF v = "clients" THEN "raised" ELSE "returned", val |-> <<>>]
        ELSE [outcome |-> "returned", val |-> SortDesc(entries)]

ReadInfo(sid) ==
    /\ last' = ReadResult("get_session_info", sid,
                          InfoWhole(variant, lists, meta, sid, now))
    /\ UNCHANGED <<controller, variant, drops, now, up, lists, meta, pc, call, loc,
                   nops, issued, log, clean, removed>>

ReadMessages(sid) ==
    /\ last' = ReadResult("get_session_messages", sid,
                          MessagesWhole(variant, lists[sid]))
    /\ UNCHANGED <<controller, variant, drops, now, up, lists, meta, pc, call, loc,
                   nops, issued, log, clean, removed>>

ReadList ==
    /\ \E order \in Orders(ListedKeys(KeysChat(lists, meta))) :
         last' = ReadResult("list_sessions", EmptyId,
                            ListWhole(variant, lists, meta, order, now))
    /\ UNCHANGED <<controller, variant, drops, now, up, lists, meta, pc, call, loc,
                   nops, issued, log, clean, removed>>

NextRead ==
    \/ \E sid \in ChatIds : ReadInfo(sid)
    \/ \E sid \in ChatIds : ReadMessages(sid)
    \/ ReadList

SpecRead == InitRead /\ [][NextRead]_vars

\* ------------------------------------------------ _connect_with_retry
\* SpecConnect: one run of _connect_with_retry (from __init__, or from
\* _ensure_connection in the utils store) against a server that comes and
\* goes. A ping that is not answered raises redis ConnectionError or
\* TimeoutError.
\* (pings, failed, sleeps: history of the run)

\* the largest configured max_retries (REDIS_MAX_RETRIES; default 3)
MaxRetries == 3

PingErrors == {"ConnectionError", "TimeoutError"}

InitConnect ==
    /\ variant \in Variants
    /\ ctl = "none"
    /\ ss = NoState
    /\ turn = NoTurn
    /\ ctx = [k \in Ids |-> <<>>]
    /\ tabs = NoTabs
    /\ \E n \in 0 .. MaxRetries : conn = [NoConn EXCEPT !.pc = "loop", !.max_retries = n]
    /\ now = 0
    /\ up \in BOOLEAN
    /\ lists = [k \in Ids |-> <<>>]
    /\ meta = [k \in Ids |-> NoMeta]
    /\ pc = [c \in Clients |-> "idle"]
    /\ call = [c \in Clients |-> NoCall]
    /\ loc = [c \in Clients |-> NoLoc]
    /\ last = NoLast
    /\ nops = 0
    /\ drops = 0
    /\ issued = <<>>
    /\ log = [k \in Ids |-> <<>>]
    /\ clean = [k \in Ids |-> TRUE]
    /\ removed = [k \in Ids |-> FALSE]

connFrame == <<variant, now, up, lists, meta, pc, call, loc, last, nops, drops,
               issued, log, clean, removed, ctl, ss, turn, ctx, tabs>>

\* the module imports time (utils) or the handler does (langchain);
\* src/clients/redis.py never imports it
TimeImported(v) == v # "clients"

\* what the handler of the last attempt raises: the caught error again
\* (utils) or ClientConnectionError
Exhausted(v, e) == IF v = "utils" THEN e ELSE "ClientConnectionError"

\* the handler of a failed attempt that is not the last one: time.sleep,
\* or NameError where the name time is not bound
FailedAttempt(v, c) ==
    IF TimeImported(v)
    THEN [c EXCEPT !.pc = "sleep"]
    ELSE [c EXCEPT !.pc = "raised", !.error = "NameError"]

\* one iteration of "for attempt in range(self.max_retries)": a new client
\* and its ping
Attempt ==
    /\ conn.pc = "loop"
    /\ conn.attempt < conn.max_retries
    /\ LET c == [conn EXCEPT !.pings = @ + 1] IN
       IF up
       THEN conn' = [c EXCEPT !.pc = "returned", !.result = "client"]
       ELSE \E e \in PingErrors :
              LET f == [c EXCEPT !.failed = @ + 1] IN
              conn' = IF conn.attempt < conn.max_retries - 1
                      THEN FailedAttempt(variant, f)
                      ELSE [f EXCEPT !.pc = "raised", !.error = Exhausted(variant, e)]
    /\ UNCHANGED connFrame

\* time.sleep(self.retry_interval), then the next iteration
Sleep ==
    /\ conn.pc = "sleep"
    /\ conn' = [conn EXCEPT !.pc = "loop", !.attempt = @ + 1, !.sleeps = @ + 1]
    /\ UNCHANGED connFrame

\* range(0) is empty: the function falls off its end and returns None
LoopEnd ==
    /\ conn.pc = "loop"
    /\ conn.attempt >= conn.max_retries
    /\ conn' = [conn EXCEPT !.pc = "returned", !.result = "None"]
    /\ UNCHANGED connFrame

NextConnect ==
    \/ Attempt
    \/ Sleep
    \/ LoopEnd
    \/ Drop
    \/ Restore

SpecConnect == InitConnect /\ [][NextConnect]_vars

\* =============================================== the chat controllers
\* SpecUI: one browser session drives one controller, which calls the store
\* and the LLM client from a single thread; the store's server answers every
\* command. The sidebar's streaming toggle is on.
\*
\*   "main"  main.py                      OllamaClient, utils store
\*   "app"   src/ui/streamlit_app.py      LangChainClient, langchain store
\*   "chat"  src/ui/components/chat.py    LangChainClient, langchain store

\* chat turns submitted in one behaviour
MaxTurns == 2
\* fragments the streaming source emits in one behaviour
MaxFrags == 2
\* sessions a controller creates in one behaviour
MaxChats == 2

Controllers == {"main", "app", "chat"}
StoreOf(k) == IF k = "main" THEN "utils" ELSE "langchain"
\* what st.chat_input hands over: never the empty text
Prompts == {<<"p">>, <<" ">>}
\* what the streaming source emits
Fragments == {<<>>, <<"a">>, <<"b">>, <<" ">>}
\* what generate_chat_name returns: the model's title, or its fallback
\* f"Infrastructure Analysis {now}" when the call failed or gave no title
ChatNames == {"title", "Infrastructure Analysis"}

\* how the generation call inside generate_chat_name ends: with a title,
\* with a blank text, or with an exception
NamingOutcomes == {"title", "blank", "failed"}

GeneratedName(outcome) ==
    IF outcome = "title" THEN "title" ELSE "Infrastructure Analysis"

\* not text.strip()
IsBlank(text) == \A i \in 1 .. Len(text) : text[i] = " "

RECURSIVE Join(_)
\* "".join(full_response)
Join(q) == IF q = <<>> THEN <<>> ELSE Head(q) \o Join(Tail(q))

\* add_message(sid, m) run to its end with the server answering: the list.
\* redis-py refuses the key None (the exception is swallowed by the utils
\* store); the langchain store returns at once on a falsy session id.
StoreAddLists(v, l, sid, m) ==
    IF sid = NoSession \/ (v = "langchain" /\ sid = EmptyId)
    THEN l
    ELSE RPush(l, sid, Encode(v, m))

\* add_message(sid, m) run to its end with the server answering: the hash
StoreAddMeta(v, mt, sid) ==
    IF sid = NoSession \/ (v = "langchain" /\ sid = EmptyId)
    THEN mt
    ELSE IF v = "langchain"
         THEN HSetCount(mt, sid,
                  (IF mt[sid].message_count = None THEN 0 ELSE mt[sid].message_count) + 1)
         ELSE HIncrBy(mt, sid)

\* create_session() run to its end with the server answering
StoreCreateMeta(v, mt, t) ==
    IF v = "langchain"
    THEN HSetCreatedNamed(mt, SessionIdAt(t), t, "default")
    ELSE HSetCreated(mt, SessionIdAt(t), t)

NoMetas == [k \in Ids |-> NoMeta]

InitUI ==
    /\ ctl \in Controllers
    /\ variant = StoreOf(ctl)
    /\ now = 0
    /\ up = TRUE
    /\ lists = [k \in Ids |-> <<>>]
    \* ChatComponent is constructed with the id of a session
    /\ meta = IF ctl = "chat" THEN StoreCreateMeta("langchain", NoMetas, 0) ELSE NoMetas
    /\ issued = IF ctl = "chat" THEN <<SessionIdAt(0)>> ELSE <<>>
    /\ ss = IF ctl = "chat"
            THEN [NoState EXCEPT !.started = TRUE, !.current_session = SessionIdAt(0)]
            ELSE NoState
    /\ turn = NoTurn
    /\ ctx = [k \in Ids |-> <<>>]
    /\ tabs = NoTabs
    /\ conn = NoConn
    /\ pc = [c \in Clients |-> "idle"]
    /\ call = [c \in Clients |-> NoCall]
    /\ loc = [c \in Clients |-> NoLoc]
    /\ last = NoLast
    /\ nops = 0
    /\ drops = 0
    /\ log = [k \in Ids |-> <<>>]
    /\ clean = [k \in Ids |-> TRUE]
    /\ removed = [k \in Ids |-> FALSE]

\* what no action of a controller changes
storeCallers == <<variant, up, pc, call, loc, last, nops, drops, log, clean, removed, ctl, conn,
                  tabs>>

\* the clock advances between two script runs
UITick ==
    /\ now < MaxNow
    /\ ss.started
    /\ ctl # "chat"
    /\ turn.phase = "idle"
    /\ now' = now + 1
    /\ UNCHANGED <<storeCallers, lists, meta, issued, ss, turn, ctx>>

\* The first script run. main.py creates a session and loads its messages;
\* StreamlitApp selects no session.
FirstRun ==
    /\ ctl \in {"main", "app"}
    /\ ~ss.started
    /\ IF ctl = "main"
       THEN /\ meta' = StoreCreateMeta(variant, meta, now)
            /\ issued' = Append(issued, SessionIdAt(now))
            /\ ss' = [ss EXCEPT !.started = TRUE, !.current_session = SessionIdAt(now),
                                 !.messages = Decode(variant, lists[SessionIdAt(now)])]
       ELSE /\ ss' = [ss EXCEPT !.started = TRUE, !.current_session = NoSession,
                                 !.messages = <<>>]
            /\ UNCHANGED <<meta, issued>>
    /\ UNCHANGED <<storeCallers, now, lists, turn, ctx>>

\* the "New Chat" button of the sidebar
NewChat ==
    /\ ctl \in {"main", "app"}
    /\ ss.started
    /\ turn.phase = "idle"
    /\ Len(issued) < MaxChats
    /\ meta' = StoreCreateMeta(variant, meta, now)
    /\ issued' = Append(issued, SessionIdAt(now))
    /\ ss' = [ss EXCEPT !.current_session = SessionIdAt(now), !.messages = <<>>]
    /\ UNCHANGED <<storeCallers, now, lists, turn, ctx>>

\* ---------------------------------------------------- the chat turn
UserMsg(text) == [role |-> "user", content |-> text]
AssistantMsg(text) == [role |-> "assistant", content |-> text]

\* The chat input delivers a prompt and the handler runs up to its request
\* to the streaming source. main.py and ChatComponent store the user's
\* message first; StreamlitApp returns on a blank prompt and stores nothing
\* yet. StreamlitApp shows the input only while a session is selected.
Submit(p) ==
    /\ ss.started
    /\ turn.phase = "idle"
    /\ turn.n < MaxTurns
    /\ ctl = "app" => ss.current_session # NoSession
    /\ LET rejected == ctl = "app" /\ IsBlank(p)
           stores == ctl \in {"main", "chat"}
       IN  /\ turn' = [phase |-> IF rejected THEN "idle" ELSE "streaming",
                       n |-> turn.n + 1, prompt |-> p, full_response |-> <<>>,
                       shown |-> NoShown, failure |-> NoFailure,
                       received |-> <<>>, emitted |-> turn.emitted,
                       ended |-> IF rejected THEN "rejected" ELSE "none",
                       error |-> FALSE, userAppended |-> stores,
                       appended |-> FALSE, named |-> FALSE, naming |-> "none",
                       cause |-> "none"]
           /\ IF stores
              THEN /\ lists' = StoreAddLists(variant, lists, ss.current_session, UserMsg(p))
                   /\ meta' = StoreAddMeta(variant, meta, ss.current_session)
              ELSE UNCHANGED <<lists, meta>>
           /\ ss' = IF ctl = "main"
                    THEN [ss EXCEPT !.messages = Append(@, UserMsg(p))]
                    ELSE ss
    /\ UNCHANGED <<storeCallers, now, issued, ctx>>

\* the fragment f put in front of full_response
AccumulateFront(k, full, f) ==
    IF k = "main" THEN f \o full ELSE <<f>> \o full

\* full_response after the fragment f: main.py adds a truthy chunk to the
\* string; the callback handle_token appends every token to the list
Accumulate(k, full, f) ==
    IF k = "main"
    THEN (IF f # <<>> THEN full \o f ELSE full)
    ELSE Append(full, f)

\* the placeholder shows the last token alone
ShownLastToken(k, old, full, f) == [text |-> f, cursor |-> TRUE]

\* message_placeholder after the fragment f, `full` being full_response with
\* f in it: main.py writes full_response and the cursor for a truthy chunk,
\* handle_token writes "".join(full_response) and the cursor for every token
Shown(k, old, full, f) ==
    IF k = "main"
    THEN (IF f # <<>> THEN [text |-> full, cursor |-> TRUE] ELSE old)
    ELSE [text |-> Join(full), cursor |-> TRUE]

\* The source emits one fragment.
Fragment(f) ==
    /\ turn.phase = "streaming"
    /\ turn.emitted < MaxFrags
    /\ LET full == Accumulate(ctl, turn.full_response, f) IN
       turn' = [turn EXCEPT
                  !.received = Append(@, f),
                  !.emitted = @ + 1,
                  !.full_response = full,
                  !.shown = Shown(ctl, turn.shown, full, f)]
    /\ UNCHANGED <<storeCallers, now, lists, meta, issued, ss, ctx>>

\* What the streaming call hands to its caller when the transport fails:
\* OllamaClient's generator yields None and ends; generate_response_stream
\* raises ModelError(f"Streaming error: {str(e)}"), the message of the
\* transport's exception e. Neither holds any of the text generated so far.
StreamFailure(k) ==
    IF k = "main"
    THEN [kind |-> "None chunk", text |-> <<>>]
    ELSE [kind |-> "ModelError", text |-> <<>>]

\* main.py after its loop over the generator: the assistant's message is
\* stored when full_response is truthy, st.error is shown otherwise
MainAfterLoop(how, cause) ==
    LET text == turn.full_response IN
    IF text # <<>>
    THEN /\ lists' = StoreAddLists(variant, lists, ss.current_session, AssistantMsg(text))
         /\ meta' = StoreAddMeta(variant, meta, ss.current_session)
         /\ ss' = [ss EXCEPT !.messages = Append(@, AssistantMsg(text))]
         /\ turn' = [turn EXCEPT !.phase = "idle", !.ended = how, !.appended = TRUE,
                                 !.shown = [text |-> text, cursor |-> FALSE],
                                 !.cause = cause,
                                 !.failure = IF how = "raised"
                                             THEN StreamFailure(ctl) ELSE NoFailure]
    ELSE /\ turn' = [turn EXCEPT !.phase = "idle", !.ended = how, !.error = TRUE,
                                 !.cause = cause,
                                 !.failure = IF how = "raised"
                                             THEN StreamFailure(ctl) ELSE NoFailure]
         /\ UNCHANGED <<lists, meta, ss>>

\* StreamlitApp._handle_message after _handle_streaming_response returned
\* the text `response`: a non-blank one is stored behind the user's message,
\* and the naming of the session follows its first exchange
AppAfterResponse(response) ==
    LET sid == ss.current_session
        user == UserMsg(turn.prompt)
        ai == AssistantMsg(response)
        cache == ss.messages \o <<user, ai>>
        l2 == StoreAddLists(variant, StoreAddLists(variant, lists, sid, user), sid, ai)
        m2 == StoreAddMeta(variant, StoreAddMeta(variant, meta, sid), sid)
    IN  IF response # <<>> /\ ~IsBlank(response)
        THEN /\ lists' = l2
             /\ ss' = [ss EXCEPT !.messages = cache]
             /\ meta' = m2
             /\ turn' = [turn EXCEPT !.phase = IF Len(cache) = 2 THEN "naming" ELSE "idle",
                                     !.ended = "exhausted",
                                     !.shown = [text |-> response, cursor |-> FALSE],
                                     !.userAppended = TRUE, !.appended = TRUE]
        ELSE /\ turn' = [turn EXCEPT !.phase = "idle", !.ended = "exhausted",
                                     !.shown = [text |-> response, cursor |-> FALSE]]
             /\ UNCHANGED <<lists, meta, ss>>

\* the naming forgets the exchange when its generation call failed
AutoNameForgets(outcome) ==
    /\ turn.phase = "naming"
    /\ lists' = IF outcome = "failed"
                THEN [lists EXCEPT ![ss.current_session] = <<>>]
                ELSE lists
    /\ meta' = HSetName(meta, ss.current_session, GeneratedName(outcome))
    /\ turn' = [turn EXCEPT !.phase = "idle", !.named = TRUE, !.naming = outcome]
    /\ UNCHANGED <<storeCallers, now, issued, ss, ctx>>

\* StreamlitApp names the session after its first exchange:
\* generate_chat_name catches every exception of its generation call and
\* returns the fallback name, so update_chat_name is called with the title
\* or with the fallback; then st.rerun()
AutoName(outcome) ==
    /\ turn.phase = "naming"
    /\ GeneratedName(outcome) \in ChatNames
    /\ meta' = HSetName(meta, ss.current_session, GeneratedName(outcome))
    /\ turn' = [turn EXCEPT !.phase = "idle", !.named = TRUE, !.naming = outcome]
    /\ UNCHANGED <<storeCallers, now, lists, issued, ss, ctx>>

\* The source is exhausted without an error.
\* LangChainClient.generate_response_stream returns (content, full_prompt)
\* after adding the exchange to the history of the session_id it was given
\* (StreamlitApp gives one, ChatComponent does not); ChatComponent tests the
\* returned tuple and stores the joined tokens. (ChatOllama raises on a
\* stream that ends before its first chunk: that is StreamError.)
StreamEnd ==
    /\ turn.phase = "streaming"
    /\ ctl # "main" => turn.received # <<>>
    /\ CASE ctl = "main" ->
              /\ MainAfterLoop("exhausted", "none")
              /\ UNCHANGED ctx
         [] ctl = "app" ->
              /\ ctx' = [ctx EXCEPT ![ss.current_session] =
                           @ \o <<UserMsg(turn.prompt), AssistantMsg(Join(turn.full_response))>>]
              /\ AppAfterResponse(Join(turn.full_response))
         [] OTHER ->
              /\ lists' = StoreAddLists(variant, lists, ss.current_session,
                                        AssistantMsg(Join(turn.full_response)))
              /\ meta' = StoreAddMeta(variant, meta, ss.current_session)
              /\ turn' = [turn EXCEPT !.phase = "idle", !.ended = "exhausted",
                                      !.shown = [text |-> Join(turn.full_response),
                                                 cursor |-> FALSE],
                                      !.appended = TRUE]
              /\ UNCHANGED <<ss, ctx>>
    /\ UNCHANGED <<storeCallers, now, issued>>

\* why a request to the source fails: the transport (connection refused,
\* timeout), or the backend answering with an error
Causes == {"transport", "backend"}

\* The request to the source fails, at once or after some fragments.
\* OllamaClient's generator yields None and ends, so main.py goes on as
\* after an exhausted source; generate_response_stream raises ModelError,
\* which StreamlitApp turns into st.error and ChatComponent lets through.
\* Both clients catch Exception, whatever the cause was.
StreamError(cause) ==
    /\ turn.phase = "streaming"
    /\ IF ctl = "main"
       THEN MainAfterLoop("raised", cause)
       ELSE /\ turn' = [turn EXCEPT !.phase = "idle", !.ended = "raised", !.error = TRUE,
                                    !.failure = StreamFailure(ctl), !.cause = cause]
            /\ UNCHANGED <<lists, meta, ss>>
    /\ UNCHANGED <<storeCallers, now, issued, ctx>>

\* the script run is stopped with the partial text stored
AbandonFlush ==
    /\ turn.phase = "streaming"
    /\ lists' = StoreAddLists(variant, lists, ss.current_session,
                              AssistantMsg(turn.shown.text))
    /\ turn' = [turn EXCEPT !.phase = "idle", !.ended = "abandoned", !.appended = TRUE]
    /\ UNCHANGED <<storeCallers, now, meta, issued, ss, ctx>>

\* The caller abandons the stream: Streamlit stops the script run (a rerun
\* or the end of the browser session) while the handler waits for the next
\* fragment. No statement of the stream loop or of the callback writes to
\* the store, and the statements behind the loop are not reached.
Abandon ==
    /\ turn.phase = "streaming"
    /\ turn' = [turn EXCEPT !.phase = "idle", !.ended = "abandoned"]
    /\ UNCHANGED <<storeCallers, now, lists, meta, issued, ss, ctx>>

NextUI ==
    \/ UITick
    \/ FirstRun
    \/ NewChat
    \/ \E p \in Prompts : Submit(p)
    \/ \E f \in Fragments : Fragment(f)
    \/ StreamEnd
    \/ \E cause \in Causes : StreamError(cause)
    \/ Abandon
    \/ \E outcome \in NamingOutcomes : AutoName(outcome)

SpecUI == InitUI /\ [][NextUI]_vars

\* ------------------------------------------------ the session controls
\* SpecSessions: main.py or StreamlitApp in one browser session, with the
\* sidebar's session controls (New Chat, Load, Delete, Clear All Sessions)
\* between chat turns, and a Redis server that can become unreachable. One
\* user action is one script run. With the server unreachable a script run
\* of main.py ends at the first store call it makes (the utils store raises
\* from _ensure_connection), so it reaches neither the session list nor the
\* chat input; the store of StreamlitApp returns [] or False, or re-raises.
SessInit ==
    /\ InitUI
    /\ ctl \in {"main", "app"}

\* what the session controls leave alone
sessFrame == <<variant, pc, call, loc, last, nops, log, clean, removed, ctl, conn, tabs>>

\* the entries of the "Load" selectbox: what list_sessions returned
SidebarSessions == {k.id : k \in ListedKeys(KeysChat(lists, meta))}

\* the "Load" button, for the session s selected in the selectbox
SessLoad(s) ==
    /\ ss.started
    /\ turn.phase = "idle"
    /\ up
    /\ s \in SidebarSessions
    /\ ss' = [ss EXCEPT !.current_session = s, !.messages = Decode(variant, lists[s])]
    /\ UNCHANGED <<sessFrame, up, drops, now, lists, meta, issued, turn, ctx>>

\* the "Delete" button, for the session s selected in the selectbox:
\* main.py deletes at once, the sidebar of StreamlitApp on the second click
\* for the same session
SessDelete(s) ==
    /\ ss.started
    /\ turn.phase = "idle"
    /\ up
    /\ s \in SidebarSessions
    /\ IF ctl = "app" /\ ss.confirm_delete # s
       THEN /\ ss' = [ss EXCEPT !.confirm_delete = s]
            /\ UNCHANGED <<lists, meta>>
       ELSE /\ lists' = DelBothLists(lists, s)
            /\ meta' = DelBothMeta(meta, s)
            /\ ss' = IF s = ss.current_session
                     THEN [ss EXCEPT !.current_session = NoSession, !.messages = <<>>,
                                     !.confirm_delete = NoSession]
                     ELSE [ss EXCEPT !.confirm_delete = NoSession]
    /\ UNCHANGED <<sessFrame, up, drops, now, issued, turn, ctx>>

\* the "Clear All Sessions" button: the first click sets confirm_clear, a
\* click with confirm_clear set calls clear_all_sessions, and only a clear
\* that returned True resets the flag
SessClear ==
    /\ ss.started
    /\ turn.phase = "idle"
    /\ IF ~ss.confirm_clear
       THEN /\ ss' = [ss EXCEPT !.confirm_clear = TRUE]
            /\ UNCHANGED <<lists, meta>>
       ELSE IF up
            THEN /\ lists' = [k \in Ids |-> IF k \in ChatIds THEN <<>> ELSE lists[k]]
                 /\ meta' = [k \in Ids |-> IF k \in ChatIds THEN NoMeta ELSE meta[k]]
                 /\ ss' = [ss EXCEPT !.current_session = NoSession, !.messages = <<>>,
                                     !.confirm_clear = FALSE]
            ELSE UNCHANGED <<lists, meta, ss>>
    /\ UNCHANGED <<sessFrame, up, drops, now, issued, turn, ctx>>

\* The generation ends with the text r. main.py stores it and appends it
\* to the cache; add_message raises before that when the server is
\* unreachable. StreamlitApp appends the user's message to the cache, stores
\* it (add_message re-raises a failure), appends the reply to the cache,
\* and is about to store the reply.
SessReply(r) ==
    /\ turn.phase = "streaming"
    /\ LET sid == ss.current_session IN
       IF ctl = "main"
       THEN /\ IF up
               THEN /\ lists' = StoreAddLists(variant, lists, sid, AssistantMsg(r))
                    /\ meta' = StoreAddMeta(variant, meta, sid)
                    /\ ss' = [ss EXCEPT !.messages = Append(@, AssistantMsg(r))]
                    /\ turn' = [turn EXCEPT !.phase = "idle", !.ended = "exhausted",
                                            !.full_response = r, !.appended = TRUE]
               ELSE /\ turn' = [turn EXCEPT !.phase = "idle", !.ended = "exhausted",
                                            !.full_response = r, !.error = TRUE]
                    /\ UNCHANGED <<lists, meta, ss>>
            /\ UNCHANGED ctx
       ELSE /\ ctx' = [ctx EXCEPT ![sid] = @ \o <<UserMsg(turn.prompt), AssistantMsg(r)>>]
            /\ IF up
               THEN /\ lists' = StoreAddLists(variant, lists, sid, UserMsg(turn.prompt))
                    /\ meta' = StoreAddMeta(variant, meta, sid)
                    /\ ss' = [ss EXCEPT !.messages =
                                @ \o <<UserMsg(turn.prompt), AssistantMsg(r)>>]
                    /\ turn' = [turn EXCEPT !.phase = "storing", !.ended = "exhausted",
                                            !.full_response = <<r>>, !.userAppended = TRUE]
               ELSE /\ ss' = [ss EXCEPT !.messages = Append(@, UserMsg(turn.prompt))]
                    /\ turn' = [turn EXCEPT !.phase = "idle", !.ended = "exhausted",
                                            !.full_response = <<r>>, !.error = TRUE]
                    /\ UNCHANGED <<lists, meta>>
    /\ UNCHANGED <<sessFrame, up, drops, now, issued>>

\* StreamlitApp stores the reply: add_message(current_session, ai_message);
\* the naming follows the first exchange of the session
SessStoreReply ==
    /\ turn.phase = "storing"
    /\ LET sid == ss.current_session
           r == Join(turn.full_response)
       IN  IF up
           THEN /\ lists' = StoreAddLists(variant, lists, sid, AssistantMsg(r))
                /\ meta' = StoreAddMeta(variant, meta, sid)
                /\ turn' = [turn EXCEPT !.phase = IF Len(ss.messages) = 2
                                                  THEN "naming" ELSE "idle",
                                        !.appended = TRUE]
           ELSE /\ turn' = [turn EXCEPT !.phase = "idle", !.error = TRUE]
                /\ UNCHANGED <<lists, meta>>
    /\ UNCHANGED <<sessFrame, up, drops, now, issued, ss, ctx>>

\* generate_chat_name and update_chat_name, which returns False when the
\* server is unreachable
SessAutoName(outcome) ==
    IF up
    THEN AutoName(outcome)
    ELSE /\ turn.phase = "naming"
         /\ turn' = [turn EXCEPT !.phase = "idle", !.named = FALSE, !.naming = outcome]
         /\ UNCHANGED <<storeCallers, now, lists, meta, issued, ss, ctx>>

NextSessions ==
    \/ UITick
    \/ Drop
    \/ Restore
    \* the first script run of main.py and the "New Chat" button call
    \* create_session, which raises when the server is unreachable
    \/ (up \/ ctl = "app") /\ FirstRun
    \/ up /\ NewChat
    \/ \E s \in ChatIds : SessLoad(s)
    \/ \E s \in ChatIds : SessDelete(s)
    \/ SessClear
    \* the chat input delivers a prompt
    \/ \E p \in Prompts : (ctl = "main" => up) /\ Submit(p)
    \/ \E r \in {<<"a">>} : SessReply(r)
    \/ SessStoreReply
    \/ \E outcome \in NamingOutcomes : SessAutoName(outcome)
    \/ \E cause \in Causes : StreamError(cause)

SpecSessions == SessInit /\ [][NextSessions]_vars

\* ------------------------------------------------ two browser sessions
\* SpecTabs: the script (main.py or StreamlitApp) runs for two browser
\* sessions of one Streamlit server, each with its own st.session_state and
\* its own script thread; within one browser session a script run ends or
\* is stopped before the next one starts. Each tab begins on the session it
\* created and can load any listed session from the sidebar. The store's
\* server answers every command.

\* the session tab t created: t1 in second 0, t2 in second MaxSec
OwnSession(t) == IF t = "t1" THEN 0 ELSE MaxSec

TabPrompt(t) == IF t = "t1" THEN <<"p">> ELSE <<"q">>

InitTabs ==
    /\ ctl \in {"main", "app"}
    /\ variant = StoreOf(ctl)
    /\ ss = NoState
    /\ turn = NoTurn
    /\ ctx = [k \in Ids |-> <<>>]
    /\ conn = NoConn
    /\ tabs = [t \in Tabs |-> [session |-> OwnSession(t), phase |-> "idle", n |-> 0]]
    /\ now = MaxSec * TicksPerSec
    /\ up = TRUE
    /\ lists = [k \in Ids |-> <<>>]
    /\ meta = StoreCreateMeta(variant, StoreCreateMeta(variant, NoMetas, 0),
                              MaxSec * TicksPerSec)
    /\ pc = [c \in Clients |-> "idle"]
    /\ call = [c \in Clients |-> NoCall]
    /\ loc = [c \in Clients |-> NoLoc]
    /\ last = NoLast
    /\ nops = 0
    /\ drops = 0
    /\ issued = <<0, MaxSec>>
    /\ log = [k \in Ids |-> <<>>]
    /\ clean = [k \in Ids |-> TRUE]
    /\ removed = [k \in Ids |-> FALSE]

tabFrame == <<variant, now, up, pc, call, loc, last, nops, drops, issued, log, clean,
              removed, ctl, ss, turn, ctx, conn>>

\* the "Load" button: a session that list_sessions returned
TabLoad(t, s) ==
    /\ tabs[t].phase = "idle"
    /\ s \in {k.id : k \in ListedKeys(KeysChat(lists, meta))}
    /\ s # tabs[t].session
    /\ tabs' = [tabs EXCEPT ![t].session = s]
    /\ UNCHANGED <<tabFrame, lists, meta>>

\* the chat input of tab t delivers a prompt (the input is shown in every
\* script run, whatever another tab does): main.py stores the user's
\* message at once, StreamlitApp with the reply
TabSubmit(t) ==
    /\ tabs[t].phase = "idle"
    /\ tabs[t].n < MaxTurns
    /\ tabs' = [tabs EXCEPT ![t].phase = "awaiting", ![t].n = @ + 1]
    /\ IF ctl = "main"
       THEN /\ lists' = StoreAddLists(variant, lists, tabs[t].session, UserMsg(TabPrompt(t)))
            /\ meta' = StoreAddMeta(variant, meta, tabs[t].session)
       ELSE UNCHANGED <<lists, meta>>
    /\ UNCHANGED tabFrame

\* the reply of tab t's turn is complete and is stored
TabReply(t) ==
    /\ tabs[t].phase = "awaiting"
    /\ tabs' = [tabs EXCEPT ![t].phase = "idle"]
    /\ LET sid == tabs[t].session
           l1 == IF ctl = "main" THEN lists
                 ELSE StoreAddLists(variant, lists, sid, UserMsg(TabPrompt(t)))
           m1 == IF ctl = "main" THEN meta ELSE StoreAddMeta(variant, meta, sid)
       IN  /\ lists' = StoreAddLists(variant, l1, sid, AssistantMsg(TabPrompt(t)))
           /\ meta' = StoreAddMeta(variant, m1, sid)
    /\ UNCHANGED tabFrame

\* the turn of tab t ends without a reply: the generation failed, or the
\* script run was stopped
TabGiveUp(t) ==
    /\ tabs[t].phase = "awaiting"
    /\ tabs' = [tabs EXCEPT ![t].phase = "idle"]
    /\ UNCHANGED <<tabFrame, lists, meta>>

NextTabs ==
    \E t \in Tabs :
        \/ \E s \in ChatIds : TabLoad(t, s)
        \/ TabSubmit(t)
        \/ TabReply(t)
        \/ TabGiveUp(t)

SpecTabs == InitTabs /\ [][NextTabs]_vars

\* ====================================================== the claims
\* no add_message on session s is between its call and its return
Quiet(s) == \A c \in Clients : ~(call[c].op = "add_message" /\ call[c].sid = s)

\* what get_session_messages(s) returns when the server answers
MessagesNow(s) == Decode(variant, lists[s])

\* what get_session_info(s) returns when the server answers
InfoNow(s) == InfoRecord(variant, meta[s], Len(lists[s]), now)

\* the ids list_sessions() returns when the server answers (in some order)
ListedNow == {k.id : k \in ListedKeys(KeysChat(lists, meta))}

RECURSIVE Reverse(_)
Reverse(q) == IF q = <<>> THEN <<>> ELSE Append(Reverse(Tail(q)), Head(q))

C3_NoLostUpdate ==
    \A s \in Known :
        (/\ ~removed[s] /\ clean[s] /\ Quiet(s)
         /\ Cardinality({i \in 1 .. Len(issued) : issued[i] = s}) = 1)
        => meta[s].message_count = Len(lists[s])

\* ---------------------------------------------------------------- C4
\* C4: every id create_session returns differs from every id it returned
\* before, also within one clock second and after a deletion.
C4_IdsDistinct ==
    \A i, j \in 1 .. Len(issued) : i # j => issued[i] # issued[j]

\* ---------------------------------------------------------------- C5
\* C5: after sessions were created at strictly increasing timestamps and
\* nothing else was done, list_sessions returns all of them, the most
\* recently created first.
C5_ListAfterCreates ==
    (/\ last.op = "list_sessions" /\ last.outcome = "returned"
     /\ drops = 0
     /\ nops = Len(issued) + 1
     /\ \A c \in Clients : pc[c] = "idle"
     /\ \A i \in 1 .. Len(issued) - 1 : issued[i] < issued[i + 1])
    => [i \in 1 .. Len(last.val) |-> last.val[i].id] = Reverse(issued)

\* ---------------------------------------------------------------- C6
\* C6: when delete_session(id) has returned True, get_session_messages(id)
\* is empty, get_session_info(id) is the record of a missing session with
\* message_count 0, and list_sessions() does not list id.
C6_DeleteComplete ==
    (last.op = "delete_session" /\ last.outcome = "returned" /\ last.val = TRUE)
    => /\ MessagesNow(last.sid) = <<>>
       /\ InfoNow(last.sid) = InfoRecord(variant, NoMeta, 0, now)
       /\ InfoNow(last.sid).message_count = 0
       /\ last.sid \notin ListedNow

\* delete_session has returned True for a session that held a message
C6_Witness ==
    /\ last.op = "delete_session" /\ last.outcome = "returned" /\ last.val = TRUE
    /\ last.pre >= 1

\* ---------------------------------------------------------------- C7
\* C7: a removal step never leaves exactly one of a session's two keys: when
\* the list and the ':meta' hash both exist and a step removes one, it
\* removes the other too.
C7_RemovedTogether ==
    [][\A s \in ChatIds :
          (/\ lists[s] # <<>> /\ meta[s] # NoMeta
           /\ (lists'[s] = <<>> \/ meta'[s] = NoMeta))
          => (lists'[s] = <<>> /\ meta'[s] = NoMeta)]_vars

\* ---------------------------------------------------------------- C8
\* C8: add_message with empty content or a falsy session_id ends with an
\* error for its caller and has appended nothing.
C8_RejectsInvalid ==
    (last.op = "add_message" /\ (last.sid = EmptyId \/ last.msg.content = <<>>))
    => (last.outcome = "raised" /\ ~last.pushed)

\* ---------------------------------------------------------------- C9
\* C9: when add_message has appended to the list and the update of
\* message_count has failed, add_message does not return normally.
C9_CountFailurePropagates ==
    (last.op = "add_message" /\ last.pushed /\ last.countFailed)
    => last.outcome = "raised"

\* --------------------------------------------------------------- C10
\* C10: in each controller, a streaming turn whose source is exhausted after
\* no fragment, or after empty fragments only, ends in a failure shown to the
\* user and appends no assistant message to the store.
C10_EmptyStreamFails ==
    (/\ turn.phase = "idle" /\ turn.ended = "exhausted"
     /\ \A i \in 1 .. Len(turn.received) : turn.received[i] = <<>>)
    => (turn.error /\ ~turn.appended)

\* the messages get_session_messages returns for the selected session
StoredNow == Decode(variant, lists[ss.current_session])

\* the assistant messages among the messages q
AssistantsIn(q) == Cardinality({i \in 1 .. Len(q) : q[i].role = "assistant"})

\* the assistant messages the store holds under all its keys
AssistantsStored(l) ==
    Cardinality({e \in Ids \X (1 .. (MaxTurns * 2 + 2)) :
                    /\ e[2] <= Len(Decode(variant, l[e[1]]))
                    /\ Decode(variant, l[e[1]])[e[2]].role = "assistant"})

\* this step ends a streaming turn whose source was exhausted without error
EndsExhausted ==
    turn.phase = "streaming" /\ turn'.phase # "streaming" /\ turn'.ended = "exhausted"

\* this step leaves one more assistant message in the selected session, the
\* last one, whose content is the fragments received, concatenated in order
AppendsWholeText ==
    LET before == Decode(variant, lists[ss.current_session])
        after == Decode(variant, lists'[ss.current_session])
    IN  /\ AssistantsIn(after) = AssistantsIn(before) + 1
        /\ after[Len(after)] = AssistantMsg(Join(turn.received))

\* --------------------------------------------------------------- C11
\* C11 (as stated): when the stream emits fragments f1..fn, n >= 1, and then
\* completes normally, exactly one assistant message is appended to the
\* session and its content is f1+...+fn in emission order.
C11_OneMessagePerStream ==
    [][(EndsExhausted /\ turn.received # <<>>) => AppendsWholeText]_vars

\* C11 (amended): the same for fragments whose concatenation is not blank
\* (not empty and not made of white space only).
C11_OneMessagePerNonBlankStream ==
    [][(EndsExhausted /\ ~IsBlank(Join(turn.received))) => AppendsWholeText]_vars

\* a stream of two different non-empty fragments has completed and its
\* message has been appended
C11_Witness ==
    /\ turn.phase = "idle" /\ turn.ended = "exhausted" /\ turn.appended
    /\ Len(turn.received) = 2
    /\ turn.received[1] \notin {<<>>, <<" ">>}
    /\ turn.received[2] \notin {<<>>, <<" ">>, turn.received[1]}

\* --------------------------------------------------------------- C12
\* C12: once a non-blank prompt was submitted, the user's message is in the
\* store before the generation call starts: while the stream runs, and after
\* a generation that failed, the stored messages of the session end with it.
C12_UserMessageFirst ==
    (/\ turn.phase = "streaming" \/ turn.ended = "raised"
     /\ ~IsBlank(turn.prompt))
    => /\ StoredNow # <<>>
       /\ StoredNow[Len(StoredNow)] = UserMsg(turn.prompt)

\* --------------------------------------------------------------- C13
\* C13: when the generation call has failed, also after fragments were
\* received, the controller is idle again, no assistant message was appended
\* in the turn and an error is shown.
C13_FailureAppendsNothing ==
    (turn.phase = "idle" /\ turn.ended = "raised")
    => (~turn.appended /\ turn.error)

\* --------------------------------------------------------------- C14
\* C14: when the transport fails after fragments f1..fk, the failure handed
\* to the caller of the streaming call holds the partial text f1+...+fk.
C14_FailureCarriesPartialText ==
    turn.ended = "raised" => turn.failure.text = Join(turn.received)

\* --------------------------------------------------------------- C15
\* C15: while the stream runs, the text shown in the message placeholder is
\* the concatenation of all fragments received so far, in emission order
\* (followed by the cursor mark once something was written).
C15_ShownIsConcatenation ==
    turn.phase = "streaming" => turn.shown.text = Join(turn.received)

\* two different non-empty fragments have arrived and the stream still runs
C15_Witness ==
    /\ turn.phase = "streaming"
    /\ Len(turn.received) = 2
    /\ turn.received[1] # <<>>
    /\ turn.received[2] \notin {<<>>, turn.received[1]}

WellFormedInfo(r) ==
    /\ r.created_at \in 0 .. MaxNow
    /\ r.message_count = 0
    /\ r.chat_name # "<nil>"

C17_DefaultInfoWellFormed ==
    (/\ last.op = "get_session_info"
     /\ lists[last.sid] = <<>>
     /\ meta[last.sid] = NoMeta)
    => (last.outcome = "returned" /\ WellFormedInfo(last.val))

\* --------------------------------------------------------------- C19
\* C19: with the connection down the three reads answer an empty or default
\* value and raise nothing
C19_ReadsNeverRaise ==
    last.op \in {"get_session_messages", "get_session_info", "list_sessions"}
    => last.outcome = "returned"

\* --------------------------------------------------------------- C20
\* C20: update_chat_name with an empty session_id or an empty name returns
\* False, raises nothing and changes no stored key
RejectedRename ==
    /\ last' # last
    /\ last'.op = "update_chat_name"
    /\ (last'.sid = EmptyId \/ last'.name = "")

ListedIds == {last.val[i].id : i \in 1 .. Len(last.val)}

C18_ListingSurvivesBadMeta ==
    last.op = "list_sessions"
    => /\ last.outcome = "returned"
       /\ ListedIds = {k \in ChatIds : lists[k] # <<>>}
       /\ Len(last.val) = Cardinality(ListedIds)

\* --------------------------------------------------------------- C21
\* C21: delete_session hands no exception to its caller: whatever the
\* store does, also with the server unreachable for every reconnection
\* attempt, the call returns (True or False).
C21_DeleteNeverRaises ==
    last.op = "delete_session"
    => last.outcome = "returned"

\* --------------------------------------------------------------- C22
\* C22: the loop of clear_all_sessions works through the keys that matched
\* when keys() was read; every iteration that does not fail removes its key
\* from the store; the call returns True only with the last key of that set
\* removed (or with no key found); an iteration that fails ends the call
\* with False, raises nothing and leaves the store as the earlier
\* iterations made it.
ClearLoopStep(c) ==
    LET gone == loc[c].keys \ loc'[c].keys IN
    IF pc'[c] = "cdel"
    THEN /\ Cardinality(gone) = 1
         /\ gone \cap KeysChat(lists', meta') = {}
    ELSE /\ last'.op = "clear_all_sessions"
         /\ last'.outcome = "returned"
         /\ IF last'.val
            THEN /\ Cardinality(loc[c].keys) = 1
                 /\ loc[c].keys \cap KeysChat(lists', meta') = {}
            ELSE lists' = lists /\ meta' = meta

ClearKeysStep(c) ==
    IF pc'[c] = "cdel"
    THEN loc'[c].keys = KeysChat(lists, meta)
    ELSE /\ last'.op = "clear_all_sessions"
         /\ last'.outcome = "returned"
         /\ last'.val => KeysChat(lists, meta) = {}
         /\ lists' = lists /\ meta' = meta

C22_ClearReportsFailure ==
    [][\A c \in Clients :
         /\ (pc[c] = "cdel" /\ loc'[c].keys # loc[c].keys) => ClearLoopStep(c)
         /\ (pc[c] = "ckeys" /\ pc'[c] # "ckeys") => ClearKeysStep(c)]_vars

\* the call has returned False with one key of a session removed and the
\* other still stored
C22_Witness ==
    /\ last.op = "clear_all_sessions"
    /\ last.outcome = "returned"
    /\ ~last.val
    /\ \E id \in ChatIds :
         /\ removed[id]
         /\ (lists[id] = <<>>) # (meta[id] = NoMeta)

\* --------------------------------------------------------------- C23
\* C23: _connect_with_retry pings at most max_retries times, has slept once
\* before every attempt after the first, returns the client with the first
\* answered ping, and raises only when max_retries attempts have failed,
\* and then a connection error (the caught ConnectionError / TimeoutError
\* or ClientConnectionError).
C23_RetryDiscipline ==
    /\ conn.pings <= conn.max_retries
    /\ conn.pc = "loop" => conn.sleeps = conn.pings
    /\ conn.pc = "sleep" => conn.sleeps = conn.pings - 1
    /\ conn.result = "client" => conn.pings = conn.failed + 1
    /\ conn.pc = "raised" =>
          /\ conn.failed = conn.max_retries
          /\ conn.error \in PingErrors \cup {"ClientConnectionError"}

\* --------------------------------------------------------------- C24
\* C24: after the server was unreachable and has come back, an operation
\* on the same store object that ends with the server reachable has
\* completed: it returned, both writes of add_message were made, and
\* delete_session and clear_all_sessions answered True.
Completed(r) ==
    /\ r.outcome = "returned"
    /\ ~r.countFailed
    /\ r.op = "add_message" => r.pushed
    /\ r.op \in {"delete_session", "clear_all_sessions"} => r.val

C24_ReconnectsItself ==
    (/\ last.op \in {"create_session", "add_message", "get_session_messages",
                     "get_session_info", "list_sessions", "delete_session",
                     "clear_all_sessions"}
     /\ last.sid # EmptyId \/ last.op \notin {"add_message"}
     /\ drops > 0
     /\ up)
    => Completed(last)

\* an add_message has stored its message after the server was away
C24_Witness ==
    /\ drops > 0
    /\ up
    /\ last.op = "add_message"
    /\ last.sid # EmptyId
    /\ last.outcome = "returned"
    /\ last.pushed
    /\ lists[last.sid] # <<>>

\* --------------------------------------------------------------- C25
\* C25: get_session_messages over a list that holds one corrupt record
\* returns, without raising, the messages of all its valid records in list
\* order.
ValidRecord(r) ==
    /\ r.tag = (IF variant = "langchain" THEN "type" ELSE "role")
    /\ r.kind \in (IF variant = "langchain" THEN {"HumanMessage", "AIMessage"} ELSE Roles)

IsChatMessage(e) == e.role \in Roles

C25_CorruptRecordSkipped ==
    last.op = "get_session_messages"
    => /\ last.outcome = "returned"
       /\ SelectSeq(last.val, IsChatMessage)
            = Decode(variant, SelectSeq(lists[last.sid], ValidRecord))

\* --------------------------------------------------------------- C26
\* C26: when the generation call of the auto-naming has failed, the
\* chat_name stored for the session is what it was before the naming.
C26_FailedNamingKeepsName ==
    [][(turn.phase = "naming" /\ turn'.naming = "failed")
       => meta'[ss.current_session].chat_name = meta[ss.current_session].chat_name]_vars

\* --------------------------------------------------------------- C27
\* C27: the auto-naming starts with the user's and the assistant's message
\* of the first exchange stored, in this order, as the session's last two
\* messages, and whatever its outcome (title, blank text, failure) it leaves
\* every stored message as it is.
ExchangeStored ==
    /\ Len(StoredNow) >= 2
    /\ StoredNow[Len(StoredNow) - 1] = UserMsg(turn.prompt)
    /\ StoredNow[Len(StoredNow)] = AssistantMsg(Join(turn.received))

C27_NamingAfterExchange ==
    [][(turn.phase = "naming" /\ turn'.phase # "naming")
       => (ExchangeStored /\ lists' = lists)]_vars

\* the naming has failed and the exchange is still stored
C27_Witness ==
    /\ turn.phase = "idle"
    /\ turn.naming = "failed"
    /\ turn.named
    /\ ExchangeStored

\* --------------------------------------------------------------- C28
\* C28: for every session at most one turn awaits its reply at any time.
InFlight(s) == {t \in Tabs : tabs[t].phase = "awaiting" /\ tabs[t].session = s}

C28_OnePromptInFlight ==
    \A s \in ChatIds : Cardinality(InFlight(s)) <= 1

\* --------------------------------------------------------------- C29
\* C29: what a failed generation hands to the controller is a
\* connection-failure error when the transport failed, and a
\* generation-failure error of another kind when the backend answered with
\* an error.
ConnectionKinds == {"ClientConnectionError"}

C29_TransportFailureDistinct ==
    turn.ended = "raised"
    => (turn.failure.kind \in ConnectionKinds <=> turn.cause = "transport")

\* --------------------------------------------------------------- C30
\* C30: no step changes the created_at stored for a session from one
\* timestamp to another: it is written once and stays until the session's
\* metadata is deleted.
C30_CreatedAtImmutable ==
    [][\A s \in ChatIds :
         (meta[s].created_at # None /\ meta'[s].created_at # None)
         => meta'[s].created_at = meta[s].created_at]_vars

\* C31: one add_message call appends at most one record to the session's
\* list: a write whose reply is late is not sent a second time behind the
\* caller's back. Here every operation started is an add_message.
RecordsStored == Len(lists[0]) + Len(lists[MaxSec])

C31_OneRecordPerCall == RecordsStored <= nops

\* C32: a submitted prompt that is blank (empty or whitespace only) causes no
\* store write and no generation call, and the controller stays idle.
SubmitsBlank == turn'.n = turn.n + 1 /\ IsBlank(turn'.prompt)

C32_BlankPromptIgnored ==
    [][SubmitsBlank => (lists' = lists /\ meta' = meta /\ turn'.phase = "idle")]_vars

\* C34: in StreamlitApp, after every turn the context history that
\* LangChainClient keeps for a session equals the messages stored for that
\* session: an exchange is in both or in neither, also when the reply is
\* empty or blank.
C34_ContextMatchesStore ==
    (ctl = "app" /\ turn.phase = "idle")
        => \A s \in ChatIds : ctx[s] = Decode(variant, lists[s])

\* C36: whatever the interleaving of create_session, add_message,
\* delete_session and clear_all_sessions, also with a stale caller that
\* writes to a session after its deletion, a session with a non-empty list
\* has a ':meta' hash with created_at in it, and a ':meta' hash exists only
\* for an id that create_session has returned and that still carries what
\* create_session wrote.
\* (Checked in the states where no operation is under way.)
C36_NoResurrection ==
    (\A c \in Clients : pc[c] = "idle") =>
        \A s \in ChatIds :
            /\ lists[s] # <<>> => meta[s].created_at # None
            /\ meta[s] # NoMeta => (s \in Known /\ meta[s].created_at # None)

\* C39: for every max_retries >= 0 the construction of a store object ends
\* with redis_client bound to a client whose ping was answered, or with an
\* error: never with redis_client = None.
C39_NeverNoClient == conn.result # "None"

\* C33: in main.py, after any sequence of UI actions (new chat, load,
\* delete, clear all, submit with success or failure), the cached
\* st.session_state.messages equals, as (role, content) pairs, the messages
\* stored for st.session_state.current_session; the cache never holds a
\* message the store does not hold.
StoredForCurrent ==
    IF ss.current_session = NoSession
    THEN <<>>
    ELSE Decode(variant, lists[ss.current_session])

C33_CacheIsStoreView == (ctl = "main" /\ ss.started) => ss.messages = StoredForCurrent

\* C37: whenever a controller accepts a prompt, the turn that will call
\* add_message, st.session_state.current_session is a non-empty id of a
\* session that exists in the store; after deleting the current session
\* or clearing all sessions no prompt is written under a null session id.
SessionExists(s) == s \in ChatIds /\ (meta[s] # NoMeta \/ lists[s] # <<>>)

AcceptsPrompt == turn'.n = turn.n + 1 /\ turn'.phase = "streaming"

C37_PromptHasSession == [][AcceptsPrompt => SessionExists(ss.current_session)]_vars

\* C38: the confirm_clear flag that a first click on 'Clear All Sessions'
\* sets does not outlive the next user action (new chat, load, delete,
\* submit, a failed clear), so that clear_all_sessions runs only when the
\* click before the confirming one was a click on the same button; the flag
\* is false after every successful clear. (A step of the server or of the
\* clock, or one that continues a turn, is no user action.)
UserAction == up' = up /\ now' = now /\ turn.phase = "idle"

C38_ConfirmIsImmediate == [][(ss.confirm_clear /\ UserAction) => ~ss'.confirm_clear]_vars

\* C35: in StreamlitApp, which writes the user's and the assistant's message
\* as a pair after a valid reply, between turns every session holds an even
\* number of stored messages, alternating user then assistant, also when
\* one of the two add_message calls fails.
Alternating(q) ==
    /\ Len(q) % 2 = 0
    /\ \A i \in 1 .. Len(q) : q[i].role = IF i % 2 = 1 THEN "user" ELSE "assistant"

C35_StoredInPairs ==
    (ctl = "app" /\ turn.phase = "idle")
        => \A s \in ChatIds : Alternating(Decode(variant, lists[s]))

====
